---- MODULE Spec2Model ----
(***************************************************************************)
(* A model of helix-importer-cli (src/index.js): the argument parser, the  *)
(* retrying fetcher, the per-job pipeline importDocument and the batch     *)
(* runner main, as they run on Node.js (ES module, strict mode).           *)
(*                                                                         *)
(* JavaScript strings are sequences of one-character strings, so that      *)
(* startsWith, slice and split are computed and not assumed.               *)
(***************************************************************************)
EXTENDS Naturals, Integers, Sequences, FiniteSets, TLC

VARIABLES
    argv,        \* process.argv.slice(2): the argument list
    config,      \* appConfig, the value parseArgs returned
    mainPc,      \* where main is: "start", "allSettled" (line 205), "awaitJob" (line
                 \* 214), "returned", "threw"; "parsed" and "fetchOnly" when
                 \* parseArgs or fetchAsTextWithRetry is run on its own
    cur,         \* sequential mode: index of the job main is awaiting (0 when none)
    pipes,       \* one record per importDocument / fetchAsTextWithRetry invocation
    failures,    \* main's failures array
    console,     \* what main's report printed with console.error
    settleOrder, \* indices of the pipelines in the order their promises settled
    netLog,      \* indices of the pipelines in the order their GET requests were issued
    fragments    \* one call of the fragment contract's transform: what the
                 \* transformer returned and what the contract returned

vars == <<argv, config, mainPc, cur, pipes, failures, console, settleOrder, netLog,
          fragments>>

----------------------------------------------------------------------------
(* Bounds of the model *)

MaxArgs == 3          \* longest argument list handed to parseArgs alone
MaxJobs == 2          \* most job tokens in a batch that main runs
MaxRetriesBound == 3  \* largest maxRetries handed to fetchAsTextWithRetry alone

----------------------------------------------------------------------------
(* JavaScript values *)

Str(s) == [t |-> "string", s |-> s]
Undefined == [t |-> "undefined", s |-> <<>>]
Null == [t |-> "null", s |-> <<>>]

Falsy_NullOnly(v) == v.t \in {"null", "undefined"}

\* !v for the values the program tests: null, undefined and "" are falsy
Falsy(v) == v.t \in {"null", "undefined"} \/ (v.t = "string" /\ v.s = <<>>)

\* arr[i] of a JavaScript array (0-based), undefined past its end
At(arr, i) == IF i + 1 <= Len(arr) THEN Str(arr[i + 1]) ELSE Undefined

\* String.prototype.startsWith
StartsWith(s, prefix) ==
    /\ Len(prefix) <= Len(s)
    /\ SubSeq(s, 1, Len(prefix)) = prefix

\* String.prototype.endsWith
EndsWith(s, suffix) ==
    /\ Len(suffix) <= Len(s)
    /\ SubSeq(s, Len(s) - Len(suffix) + 1, Len(s)) = suffix

\* String.prototype.slice(from) for 0 <= from
Slice(s, from) == SubSeq(s, from + 1, Len(s))

\* String.prototype.split(sep) for a one-character separator: every occurrence
\* of sep ends a piece; the empty string splits into one empty piece.
RECURSIVE SplitFrom(_, _, _)
SplitFrom(s, sep, piece) ==
    IF s = <<>> THEN <<piece>>
    ELSE IF Head(s) = sep THEN <<piece>> \o SplitFrom(Tail(s), sep, <<>>)
    ELSE SplitFrom(Tail(s), sep, Append(piece, Head(s)))

Split(s, sep) == SplitFrom(s, sep, <<>>)

\* String.prototype.split(sep, limit): the first limit pieces of split(sep);
\* what follows them is dropped, not kept in the last piece.
SplitLimit(s, sep, limit) ==
    LET all == Split(s, sep)
    IN  IF Len(all) <= limit THEN all ELSE SubSeq(all, 1, limit)

----------------------------------------------------------------------------
(* parseArgs *)

WordParallel == <<"p", "a", "r", "a", "l", "l", "e", "l">>
WordTrue == <<"t", "r", "u", "e">>
WordFalse == <<"f", "a", "l", "s", "e">>
DashDash == <<"-", "-">>

NewConfig == [documents |-> <<>>, parallel |-> TRUE]

\* the switch on value of lines 39-50
ParallelValue(parallel, value) ==
    IF value = Undefined \/ value = Str(WordTrue) THEN TRUE
    ELSE IF value = Str(WordFalse) THEN FALSE
    ELSE parallel

\* an option token, lines 36-56
ParseOption(cfg, arg) ==
    LET nv == SplitLimit(Slice(arg, 2), "=", 2)
        name == At(nv, 0)
        value == At(nv, 1)
    IN  IF name = Str(WordParallel)
        THEN [cfg EXCEPT !.parallel = ParallelValue(cfg.parallel, value)]
        ELSE cfg

\* a job token, lines 58-59
ParseJob_Swapped(cfg, arg) ==
    LET parts == Split(arg, "|")
    IN  [cfg EXCEPT !.documents = Append(@,
            [url |-> At(parts, 0), targetPath |-> At(parts, 2),
             transformerPath |-> At(parts, 1)])]

ParseJob(cfg, arg) ==
    LET parts == Split(arg, "|")
    IN  [cfg EXCEPT !.documents = Append(@,
            [url |-> At(parts, 0), targetPath |-> At(parts, 1),
             transformerPath |-> At(parts, 2)])]

\* one iteration of the loop of line 33
ParseArg(cfg, arg) ==
    IF StartsWith(arg, DashDash) THEN ParseOption(cfg, arg) ELSE ParseJob(cfg, arg)

RECURSIVE ParseLoop(_, _, _)
ParseLoop(cfg, args, i) ==
    IF i > Len(args) THEN cfg ELSE ParseLoop(ParseArg(cfg, args[i]), args, i + 1)

parseArgs(args) == ParseLoop(NewConfig, args, 1)

----------------------------------------------------------------------------
(* Errors and promises *)

\* A thrown Error object. JavaScript objects have identity: id names the
\* pipeline whose code created the object.
Err(name, message, id) == [t |-> "error", name |-> name, message |-> message, id |-> id]

Pending == [status |-> "pending", value |-> Undefined]
Fulfilled(v) == [status |-> "fulfilled", value |-> v]
Rejected(e) == [status |-> "rejected", value |-> e]

Num(n) == [t |-> "number", n |-> n]
Fn(name) == [t |-> "function", name |-> name]

\* Node's setTimeout(callback, after): a callback that is not a function is
\* refused with a TypeError (ERR_INVALID_ARG_TYPE) thrown by the call itself.
SetTimeout(callback, after, id) ==
    IF callback.t = "function"
    THEN [threw |-> FALSE, callback |-> callback, error |-> Undefined]
    ELSE [threw |-> TRUE, callback |-> callback,
          error |-> Err("TypeError", "ERR_INVALID_ARG_TYPE", id)]

\* delay(ms), lines 17-19: the promise executor calls setTimeout(ms, resolve),
\* the delay first and the callback second. A throw inside the executor
\* rejects the promise; otherwise the promise is fulfilled when the timer
\* calls resolve, and never when the timer was not given resolve.
delay(ms, id) ==
    LET timer == SetTimeout(Num(ms), Fn("resolve"), id)
    IN  IF timer.threw THEN Rejected(timer.error)
        ELSE IF timer.callback = Fn("resolve") THEN Fulfilled(Undefined)
        ELSE Pending

----------------------------------------------------------------------------
(* The environment: what the network can answer *)

StatusOK == 200
DefaultMaxRetries == 3
DefaultDelay == 250

Bodies == { <<>>, <<"h">> }

\* kind "ok": a 200 response whose body can be read; "badbody": a 200
\* response whose text() rejects; "non200": another status; "neterr":
\* fetch itself rejects.
Responses ==
    { [kind |-> "ok", status |-> StatusOK, body |-> b] : b \in Bodies }
    \cup { [kind |-> "badbody", status |-> StatusOK, body |-> <<>>],
           [kind |-> "non200", status |-> 500, body |-> <<>>],
           [kind |-> "neterr", status |-> 0, body |-> <<>>] }

NoResponse == [kind |-> "none", status |-> 0, body |-> <<>>]
NoResult == [path |-> <<>>, docx |-> ""]
NoFragments == [targetPath |-> <<>>, returned |-> <<>>, rewritten |-> <<>>]

----------------------------------------------------------------------------
(* One invocation: the state of a job's pipeline *)

\* pc: "pending" (not called yet); inside fetchAsTextWithRetry: "fetch"
\* (awaiting fetch(url)), "text" (awaiting response.text()), "delayTry"
\* (awaiting the delay of line 82), "delayCatch" (awaiting the delay of line
\* 92), "fetchReturned", "fetchThrew" (the function's promise settled);
\* waits: the delays awaited so far, each with its length and how it settled;
\* inside importDocument: "import", "html2docx", "mkdir", "writeFile"
\* (awaiting that call), "done" (resolved), "failed" (rejected).
NewPipe(doc, max, ms) ==
    [ pc |-> "pending", doc |-> doc, max |-> max, ms |-> ms,
      iter |-> 0, served |-> <<>>, resp |-> NoResponse, fetched |-> Pending,
      transformer |-> "unloaded", contract |-> "none", result |-> NoResult,
      outcome |-> Pending, failedAt |-> "none", ops |-> <<>>, waits |-> <<>> ]

Op(name, target, data) == [op |-> name, target |-> target, data |-> data]

IsFetchOp(o) == o.op = "fetch"
Gets(p) == Len(SelectSeq(p.ops, IsFetchOp))

Terminal(p) == p.pc \in {"done", "failed"}

----------------------------------------------------------------------------
(* fetchAsTextWithRetry *)

\* the loop test of line 75 and what follows it without suspending: either
\* the next request is issued (line 79) or the function returns result
\* (line 97), which is still null when the loop ends by its test.
FetchLoop(p, iter) ==
    IF iter < p.max
    THEN [p EXCEPT !.pc = "fetch", !.iter = iter,
                   !.ops = Append(@, Op("fetch", p.doc.url.s, ""))]
    ELSE [p EXCEPT !.pc = "fetchReturned", !.iter = iter,
                   !.fetched = Fulfilled(Null)]

\* the call fetchAsTextWithRetry(url, maxRetries, delayBetweenRetries)
CallFetch(p) == FetchLoop(p, 0)

\* await fetch(url) settles with response r, lines 79-84 and 90-92
FetchSettled(p, r) ==
    LET q == [p EXCEPT !.served = Append(@, r)]
    IN  IF r.kind = "neterr" THEN [q EXCEPT !.pc = "delayCatch"]
        ELSE IF r.status # StatusOK THEN [q EXCEPT !.pc = "delayTry"]
        ELSE [q EXCEPT !.pc = "text", !.resp = r]

TextSettled_NoBreak(p) ==
    IF p.resp.kind = "badbody" THEN [p EXCEPT !.pc = "delayCatch"]
    ELSE FetchLoop(p, p.iter + 1)

\* await response.text() settles, lines 86-89 and 97, or 90-92
TextSettled(p) ==
    IF p.resp.kind = "badbody" THEN [p EXCEPT !.pc = "delayCatch"]
    ELSE [p EXCEPT !.pc = "fetchReturned", !.fetched = Fulfilled(Str(p.resp.body))]

\* one awaited delay(ms): its length and how its promise settled
Waited(ms, d) == [ms |-> ms, status |-> d.status]

\* await delay(...) of line 82 settles: a rejection is caught by the catch of
\* line 90, which logs and calls delay again; otherwise continue (line 83)
DelayTrySettled(p, d) ==
    LET q == [p EXCEPT !.waits = Append(@, Waited(p.ms, d))]
    IN  IF d.status = "rejected" THEN [q EXCEPT !.pc = "delayCatch"]
        ELSE FetchLoop(q, q.iter + 1)

\* await delay(...) of line 92 settles: a rejection leaves the function;
\* otherwise continue (line 93)
DelayCatchSettled(p, d) ==
    LET q == [p EXCEPT !.waits = Append(@, Waited(p.ms, d))]
    IN  IF d.status = "rejected"
        THEN [q EXCEPT !.pc = "fetchThrew", !.fetched = Rejected(d.value)]
        ELSE FetchLoop(q, q.iter + 1)

\* the requests a step of pipeline k issued, appended to the network log
Logged(k, old, new) == IF Gets(new) > Gets(old) THEN Append(netLog, k) ELSE netLog

FetchSettle(k) ==
    /\ pipes[k].pc = "fetch"
    /\ \E r \in Responses : pipes' = [pipes EXCEPT ![k] = FetchSettled(pipes[k], r)]
    /\ UNCHANGED <<fragments, argv, config, mainPc, cur, failures, console, settleOrder, netLog>>

TextSettle(k) ==
    /\ pipes[k].pc = "text"
    /\ pipes' = [pipes EXCEPT ![k] = TextSettled(pipes[k])]
    /\ UNCHANGED <<fragments, argv, config, mainPc, cur, failures, console, settleOrder, netLog>>

DelayTrySettle(k) ==
    /\ pipes[k].pc = "delayTry"
    /\ LET d == delay(pipes[k].ms, k)
           q == DelayTrySettled(pipes[k], d)
       IN  /\ d.status # "pending"
           /\ pipes' = [pipes EXCEPT ![k] = q]
           /\ netLog' = Logged(k, pipes[k], q)
    /\ UNCHANGED <<fragments, argv, config, mainPc, cur, failures, console, settleOrder>>

DelayCatchSettle(k) ==
    /\ pipes[k].pc = "delayCatch"
    /\ LET d == delay(pipes[k].ms, k)
           q == DelayCatchSettled(pipes[k], d)
       IN  /\ d.status # "pending"
           /\ pipes' = [pipes EXCEPT ![k] = q]
           /\ netLog' = Logged(k, pipes[k], q)
    /\ UNCHANGED <<fragments, argv, config, mainPc, cur, failures, console, settleOrder>>

FetchStep(k) ==
    \/ FetchSettle(k)
    \/ TextSettle(k)
    \/ DelayTrySettle(k)
    \/ DelayCatchSettle(k)

----------------------------------------------------------------------------
(* node:path dirname (POSIX), as called on line 184 *)

\* the scan from the end of the path for the last '/' that follows a
\* character other than '/'; 0-based index, -1 when there is none
RECURSIVE DirnameEnd(_, _, _)
DirnameEnd(path, i, matchedSlash) ==
    IF i < 1 THEN -1
    ELSE IF path[i + 1] = "/"
         THEN IF ~matchedSlash THEN i ELSE DirnameEnd(path, i - 1, matchedSlash)
         ELSE DirnameEnd(path, i - 1, FALSE)

Dirname_Self(path) == path

Dirname(path) ==
    IF Len(path) = 0 THEN <<".">>
    ELSE LET hasRoot == path[1] = "/"
             end == DirnameEnd(path, Len(path) - 1, TRUE)
         IN  IF end = -1 THEN (IF hasRoot THEN <<"/">> ELSE <<".">>)
             ELSE IF hasRoot /\ end = 1 THEN <<"/", "/">>
             ELSE SubSeq(path, 1, end)

----------------------------------------------------------------------------
(* importFailure and importDocument *)

MsgFetch == "Failed to fetch URL"
MsgImport == "Failed to import transformer"
MsgInvalid == "Invalid transformer"
MsgConvert == "Failed to transform html2docx"
MsgWrite == "Failed writing the resulting document to the filesystem"

\* importFailure(reason, error), lines 118-131, called from pipeline id. The
\* function has the parameters reason and error only, and the module declares
\* no doc and no e: with an error to append, line 121 reads e and throws a
\* ReferenceError; without one, line 126 reads doc and throws a
\* ReferenceError. No call returns.
importFailure(reason, error, id) ==
    IF ~Falsy(error)
    THEN [threw |-> TRUE, value |-> Err("ReferenceError", "e is not defined", id)]
    ELSE [threw |-> TRUE, value |-> Err("ReferenceError", "doc is not defined", id)]

\* throw importFailure(...): what the call throws, or else what it returns
Throw(p, stage, call) ==
    [p EXCEPT !.pc = "failed", !.failedAt = stage, !.outcome = Rejected(call.value)]

\* an error of a rejected external call
ExternalError(what, id) == Err("Error", what, id)

\* the call importDocument(doc) up to its first suspension, lines 139-142:
\* fetchAsTextWithRetry(url) with its default parameters
CallImportDocument(p) == CallFetch(p)

\* await fetchAsTextWithRetry(url) settles, lines 142-149: a rejection is
\* outside every try and leaves importDocument as it is
AfterFetch(p, id) ==
    IF p.fetched.status = "rejected"
    THEN [p EXCEPT !.pc = "failed", !.failedAt = "fetch", !.outcome = Rejected(p.fetched.value)]
    ELSE IF Falsy(p.fetched.value)
    THEN Throw(p, "fetch", importFailure(MsgFetch, Null, id))
    ELSE [p EXCEPT !.pc = "import",
                   !.ops = Append(@, Op("import", p.doc.transformerPath.s, ""))]

\* what await import(transformerPath) can give: a rejection, a module without
\* a default export, or a default export with these capabilities
ModuleShapes == {"nodefault", "neither", "dom", "fragment", "both"}
ImportOutcomes == {"rejects"} \cup ModuleShapes

HasTransformDOM(shape) == shape \in {"dom", "both"}
HasTransform(shape) == shape \in {"fragment", "both"}

\* lines 153-172: the contract built from the transformer
ContractOf_TransformFirst(shape) ==
    IF HasTransform(shape) THEN "Fragment"
    ELSE IF HasTransformDOM(shape) THEN "DOM"
    ELSE "none"

ContractOf(shape) ==
    IF HasTransformDOM(shape) THEN "DOM"
    ELSE IF HasTransform(shape) THEN "Fragment"
    ELSE "none"

\* await import(transformerPath) settles, lines 148-178
ImportSettled(p, m, id) ==
    IF m = "rejects"
    THEN Throw(p, "import", importFailure(MsgImport, ExternalError("import", id), id))
    ELSE LET q == [p EXCEPT !.transformer = m]
         IN  IF m = "nodefault"
             THEN [q EXCEPT !.pc = "failed", !.failedAt = "shape",
                            !.outcome = Rejected(Err("TypeError", "transformer is undefined", id))]
             ELSE IF ContractOf(m) = "none"
             THEN Throw(q, "shape", importFailure(MsgInvalid, Undefined, id))
             ELSE [q EXCEPT !.pc = "html2docx", !.contract = ContractOf(m),
                            !.ops = Append(@, Op("html2docx", p.doc.url.s, ContractOf(m)))]

\* what html2docx can resolve with: the path it generated for the document
\* and the bytes of the document
ResultPaths == { <<"o", "/", "a">> }
Results == [path : ResultPaths, docx : {"bytes"}]
ConvertOutcomes == {[ok |-> FALSE, result |-> NoResult]} \cup {[ok |-> TRUE, result |-> r] : r \in Results}

\* await helix.html2docx(...) settles, lines 175-184
Html2docxSettled(p, c, id) ==
    IF ~c.ok
    THEN Throw(p, "html2docx", importFailure(MsgConvert, ExternalError("html2docx", id), id))
    ELSE [p EXCEPT !.pc = "mkdir", !.result = c.result,
                   !.ops = Append(@, Op("mkdir", Dirname(c.result.path), "recursive"))]

\* await fs.mkdir(...) settles, lines 184-187
MkdirSettled(p, ok, id) ==
    IF ~ok
    THEN Throw(p, "write", importFailure(MsgWrite, ExternalError("mkdir", id), id))
    ELSE [p EXCEPT !.pc = "writeFile",
                   !.ops = Append(@, Op("writeFile", p.result.path, p.result.docx))]

WriteSettled_Retry(p, ok, id) ==
    IF ~ok
    THEN [p EXCEPT !.ops = Append(@, Op("writeFile", p.result.path, p.result.docx))]
    ELSE [p EXCEPT !.pc = "done", !.outcome = Fulfilled(p.result)]

\* await fs.writeFile(...) settles, lines 185-192
WriteSettled(p, ok, id) ==
    IF ~ok
    THEN Throw(p, "write", importFailure(MsgWrite, ExternalError("writeFile", id), id))
    ELSE [p EXCEPT !.pc = "done", !.outcome = Fulfilled(p.result)]

\* the order in which the promises of the pipelines settled
Settled(k, new) == IF Terminal(new) THEN Append(settleOrder, k) ELSE settleOrder

\* a step of importDocument for pipeline k to the new state q
PipeTo(k, q) ==
    /\ pipes' = [pipes EXCEPT ![k] = q]
    /\ settleOrder' = Settled(k, q)
    /\ UNCHANGED <<fragments, argv, config, mainPc, cur, failures, console, netLog>>

AfterFetchStep(k) ==
    /\ pipes[k].pc \in {"fetchReturned", "fetchThrew"}
    /\ PipeTo(k, AfterFetch(pipes[k], k))

ImportSettle(k) ==
    /\ pipes[k].pc = "import"
    /\ \E m \in ImportOutcomes : PipeTo(k, ImportSettled(pipes[k], m, k))

Html2docxSettle(k) ==
    /\ pipes[k].pc = "html2docx"
    /\ \E c \in ConvertOutcomes : PipeTo(k, Html2docxSettled(pipes[k], c, k))

MkdirSettle(k) ==
    /\ pipes[k].pc = "mkdir"
    /\ \E ok \in BOOLEAN : PipeTo(k, MkdirSettled(pipes[k], ok, k))

WriteSettle(k) ==
    /\ pipes[k].pc = "writeFile"
    /\ \E ok \in BOOLEAN : PipeTo(k, WriteSettled(pipes[k], ok, k))

PipeStep(k) ==
    \/ FetchStep(k)
    \/ AfterFetchStep(k)
    \/ ImportSettle(k)
    \/ Html2docxSettle(k)
    \/ MkdirSettle(k)
    \/ WriteSettle(k)

----------------------------------------------------------------------------
(* Argument lists *)

RECURSIVE SeqsUpTo(_, _)
SeqsUpTo(S, n) ==
    IF n = 0 THEN {<<>>}
    ELSE LET shorter == SeqsUpTo(S, n - 1)
         IN  shorter \cup {Append(s, x) : s \in {t \in shorter : Len(t) = n - 1}, x \in S}

Eq == <<"=">>
OptParallel == DashDash \o WordParallel
OptParallelTrue == OptParallel \o Eq \o WordTrue
OptParallelFalse == OptParallel \o Eq \o WordFalse

OptionTokens ==
    { OptParallel, OptParallelTrue, OptParallelFalse,
      OptParallel \o Eq,
      OptParallel \o Eq \o <<"x">>,
      OptParallelTrue \o Eq \o <<"x">>,
      OptParallelFalse \o Eq \o <<"x">>,
      DashDash \o <<"q">>,
      DashDash \o <<"q">> \o Eq \o WordFalse,
      DashDash,
      DashDash \o <<"u", "|", "o", "|", "t">> }

JobA == <<"u", "|", "o", "/", "a", "|", "t">>
JobB == <<"v", "|", "p", "/", "|", "s">>

JobTokens ==
    { JobA, JobB,
      <<"u", "|", "o">>,
      <<"u">>,
      <<>>,
      <<"|", "o", "|", "t">>,
      <<"u", "|", "|", "t">>,
      <<"u", "|", "o", "|", "t", "|", "z">>,
      <<"-", "u", "|", "o", "|", "t">> }

ParseArgLists == SeqsUpTo(OptionTokens \cup JobTokens, MaxArgs)

----------------------------------------------------------------------------
(* main *)

\* the property name of a thrown or returned value, as the destructuring of
\* line 225 reads it: an Error object has no document and no reason
Prop(v, name) ==
    IF v.t = "ImportFailure" THEN (IF name = "document" THEN v.document ELSE v.reason)
    ELSE Undefined

\* lines 223-228: nothing is printed for an empty failures array
Report(fs) ==
    IF Len(fs) = 0 THEN [printed |-> FALSE, count |-> 0, lines |-> <<>>]
    ELSE [printed |-> TRUE, count |-> Len(fs),
          lines |-> [n \in 1..Len(fs) |->
                        [document |-> Prop(fs[n], "document"), reason |-> Prop(fs[n], "reason")]]]

\* the pipelines of the jobs, none called yet
PipesOf(documents) ==
    [k \in 1..Len(documents) |-> NewPipe(documents[k], DefaultMaxRetries, DefaultDelay)]

\* Promise.all(promises): rejected as soon as one promise is rejected
PromiseAll(ps) ==
    IF \E k \in 1..Len(ps) : ps[k].pc = "failed"
    THEN [settled |-> TRUE, status |-> "rejected",
          value |-> ps[CHOOSE k \in 1..Len(ps) : ps[k].pc = "failed"].outcome.value,
          results |-> <<>>]
    ELSE [settled |-> \A k \in 1..Len(ps) : Terminal(ps[k]), status |-> "fulfilled",
          value |-> Undefined, results |-> [k \in 1..Len(ps) |-> ps[k].outcome]]

\* Promise.allSettled(promises), line 205: settled when every promise is, and
\* then fulfilled with the outcomes in the order of the promises
PromiseAllSettled(ps) ==
    [settled |-> \A k \in 1..Len(ps) : Terminal(ps[k]), status |-> "fulfilled",
     value |-> Undefined, results |-> [k \in 1..Len(ps) |-> ps[k].outcome]]

\* the loop of lines 206-210 from result n on
RECURSIVE CollectRejected_First(_, _, _)
CollectRejected_First(results, n, acc) ==
    IF n > Len(results) THEN acc
    ELSE IF results[n].status = "rejected" THEN Append(acc, results[n].value)
    ELSE CollectRejected_First(results, n + 1, acc)

RECURSIVE CollectRejected_Unshift(_, _, _)
CollectRejected_Unshift(results, n, acc) ==
    IF n > Len(results) THEN acc
    ELSE CollectRejected_Unshift(results, n + 1,
            IF results[n].status = "rejected" THEN <<results[n].value>> \o acc ELSE acc)

RECURSIVE CollectRejected_Twice(_, _, _)
CollectRejected_Twice(results, n, acc) ==
    IF n > Len(results) THEN acc
    ELSE CollectRejected_Twice(results, n + 1,
            IF results[n].status = "rejected"
            THEN acc \o <<results[n].value, results[n].value>> ELSE acc)

RECURSIVE CollectRejected(_, _, _)
CollectRejected(results, n, acc) ==
    IF n > Len(results) THEN acc
    ELSE CollectRejected(results, n + 1,
            IF results[n].status = "rejected" THEN Append(acc, results[n].value) ELSE acc)

\* the requests issued by calling importDocument for the jobs from..to in turn
RECURSIVE LaunchLog(_, _, _, _)
LaunchLog(log, ps, from, to) ==
    IF from > to THEN log
    ELSE LaunchLog(IF Gets(CallImportDocument(ps[from])) > 0 THEN Append(log, from) ELSE log,
                   ps, from + 1, to)

MapImportDocument_FirstOnly(ps) ==
    IF ps = <<>> THEN ps ELSE [ps EXCEPT ![1] = CallImportDocument(ps[1])]

\* appConfig.documents.map(doc => importDocument(doc)), line 204: every
\* pipeline runs up to its first suspension, in the order of the job list
MapImportDocument(ps) == [k \in 1..Len(ps) |-> CallImportDocument(ps[k])]

\* main up to its first suspension, lines 195-214
MainStart ==
    /\ mainPc = "start"
    /\ LET cfg == parseArgs(argv)
           ps == PipesOf(cfg.documents)
           n == Len(ps)
       IN  /\ config' = cfg
           /\ IF cfg.parallel
              THEN /\ pipes' = MapImportDocument(ps)
                   /\ netLog' = LaunchLog(netLog, ps, 1, n)
                   /\ mainPc' = "allSettled"
                   /\ UNCHANGED <<cur, console>>
              ELSE IF n = 0
              THEN /\ pipes' = ps
                   /\ console' = Report(failures)
                   /\ mainPc' = "returned"
                   /\ UNCHANGED <<cur, netLog>>
              ELSE /\ pipes' = [ps EXCEPT ![1] = CallImportDocument(ps[1])]
                   /\ netLog' = LaunchLog(netLog, ps, 1, 1)
                   /\ cur' = 1
                   /\ mainPc' = "awaitJob"
                   /\ UNCHANGED console
    /\ UNCHANGED <<fragments, argv, failures, settleOrder>>

\* await Promise.allSettled(promises) settles, lines 205-210 and 223-228
MainAllSettled ==
    /\ mainPc = "allSettled"
    /\ LET all == PromiseAllSettled(pipes)
       IN  /\ all.settled
           /\ IF all.status = "rejected"
              THEN /\ mainPc' = "threw"
                   /\ UNCHANGED <<failures, console>>
              ELSE /\ failures' = CollectRejected(all.results, 1, failures)
                   /\ console' = Report(failures')
                   /\ mainPc' = "returned"
    /\ UNCHANGED <<fragments, argv, config, cur, pipes, settleOrder, netLog>>

\* await importDocument(doc) of line 214 settles: the catch of line 215
\* takes a rejection
AwaitInTry_NoCatch(p) ==
    IF p.pc = "failed" THEN [escapes |-> TRUE, caught |-> FALSE, e |-> p.outcome.value]
    ELSE [escapes |-> FALSE, caught |-> FALSE, e |-> Undefined]

AwaitInTry(p) ==
    IF p.pc = "failed" THEN [escapes |-> FALSE, caught |-> TRUE, e |-> p.outcome.value]
    ELSE [escapes |-> FALSE, caught |-> FALSE, e |-> Undefined]

Awaited_NotAwaited(p) == TRUE

\* await of line 214: main resumes only once the promise of importDocument
\* has settled
Awaited(p) == Terminal(p)

\* lines 212-221 and 223-228: record the failure, go on to the next job or
\* report
MainJobSettled ==
    /\ mainPc = "awaitJob"
    /\ Awaited(pipes[cur])
    /\ LET got == AwaitInTry(pipes[cur])
           fs == IF got.caught THEN Append(failures, got.e) ELSE failures
       IN  IF got.escapes
           THEN /\ mainPc' = "threw"
                /\ UNCHANGED <<cur, pipes, failures, console, netLog>>
           ELSE /\ failures' = fs
                /\ IF cur < Len(pipes)
                   THEN /\ pipes' = [pipes EXCEPT ![cur + 1] = CallImportDocument(pipes[cur + 1])]
                        /\ netLog' = LaunchLog(netLog, pipes, cur + 1, cur + 1)
                        /\ cur' = cur + 1
                        /\ UNCHANGED <<mainPc, console>>
                   ELSE /\ console' = Report(fs)
                        /\ mainPc' = "returned"
                        /\ UNCHANGED <<cur, pipes, netLog>>
    /\ UNCHANGED <<fragments, argv, config, settleOrder>>

MainStep ==
    \/ MainStart
    \/ MainAllSettled
    \/ MainJobSettled

----------------------------------------------------------------------------
(* The batch: main and the pipelines of its jobs *)

BatchTokens == {OptParallelFalse, JobA, JobB}

IsJobToken(arg) == ~StartsWith(arg, DashDash)

\* the batches main is run on: at most MaxJobs jobs, JobA and JobB in turn,
\* with --parallel=false anywhere between them
JobAt(n) == IF n % 2 = 1 THEN JobA ELSE JobB

BatchArgLists ==
    { s \in SeqsUpTo(BatchTokens, MaxJobs + 1) :
        LET jobs == SelectSeq(s, IsJobToken)
        IN  /\ Len(jobs) <= MaxJobs
            /\ \A n \in 1..Len(jobs) : jobs[n] = JobAt(n) }

Init ==
    /\ argv \in BatchArgLists
    /\ config = NewConfig
    /\ mainPc = "start"
    /\ cur = 0
    /\ pipes = <<>>
    /\ failures = <<>>
    /\ console = [printed |-> FALSE, count |-> 0, lines |-> <<>>]
    /\ settleOrder = <<>>
    /\ netLog = <<>>
    /\ fragments = NoFragments

Next ==
    \/ MainStep
    \/ \E k \in 1..Len(pipes) : PipeStep(k)

Spec == Init /\ [][Next]_vars

\* Every external call eventually resolves or rejects, and the event loop
\* runs every continuation that is ready.
FairSpec ==
    /\ Spec
    /\ WF_vars(MainStep)
    /\ \A k \in 1..MaxJobs : WF_vars(k \in 1..Len(pipes) /\ PipeStep(k))

----------------------------------------------------------------------------
(* fetchAsTextWithRetry on its own *)

FetchUrls == { <<"u">>, <<"v">> }
FetchDelays == {0, DefaultDelay}

FetchInit ==
    /\ argv = <<>>
    /\ config = NewConfig
    /\ mainPc = "fetchOnly"
    /\ cur = 0
    /\ \E u \in FetchUrls, m \in 0..MaxRetriesBound, ms \in FetchDelays :
          pipes = <<NewPipe([url |-> Str(u), targetPath |-> Undefined,
                             transformerPath |-> Undefined], m, ms)>>
    /\ failures = <<>>
    /\ console = [printed |-> FALSE, count |-> 0, lines |-> <<>>]
    /\ settleOrder = <<>>
    /\ netLog = <<>>
    /\ fragments = NoFragments

FetchCall ==
    /\ mainPc = "fetchOnly"
    /\ pipes[1].pc = "pending"
    /\ pipes' = [pipes EXCEPT ![1] = CallFetch(pipes[1])]
    /\ netLog' = Logged(1, pipes[1], pipes'[1])
    /\ UNCHANGED <<fragments, argv, config, mainPc, cur, failures, console, settleOrder>>

FetchNext ==
    \/ FetchCall
    \/ FetchStep(1)

FetchSpec == FetchInit /\ [][FetchNext]_vars

----------------------------------------------------------------------------
(* The argument parser on its own *)

ParseInit ==
    /\ argv \in ParseArgLists
    /\ config = NewConfig
    /\ mainPc = "start"
    /\ cur = 0
    /\ pipes = <<>>
    /\ failures = <<>>
    /\ console = [printed |-> FALSE, count |-> 0, lines |-> <<>>]
    /\ settleOrder = <<>>
    /\ netLog = <<>>
    /\ fragments = NoFragments

ParseCall ==
    /\ mainPc = "start"
    /\ config' = parseArgs(argv)
    /\ mainPc' = "parsed"
    /\ UNCHANGED <<fragments, argv, cur, pipes, failures, console, settleOrder, netLog>>

ParseNext == ParseCall

ParseSpec == ParseInit /\ [][ParseNext]_vars

----------------------------------------------------------------------------
(* The fragment contract's transform on its own *)

MaxPairs == 2         \* most { element, path } pairs transformer.transform returns

\* String.prototype.lastIndexOf(ch): the 0-based index of the last ch, -1 if none
LastIndexOf(s, ch) ==
    LET at == { i \in 1..Len(s) : s[i] = ch }
    IN  IF at = {} THEN -1 ELSE (CHOOSE i \in at : \A j \in at : j <= i) - 1

RewritePath_AlwaysSlash(targetPath, path) ==
    targetPath \o <<"/">> \o Slice(path, LastIndexOf(path, "/") + 1)

\* the template literal that builds a rewritten pair's path
RewritePath(targetPath, path) ==
    targetPath
        \o (IF EndsWith(targetPath, <<"/">>) THEN <<>> ELSE <<"/">>)
        \o Slice(path, LastIndexOf(path, "/") + 1)

\* transformConfig.transform: the transformer's pairs mapped one to one
FragmentTransform(targetPath, returned) ==
    [ n \in 1..Len(returned) |->
        [element |-> returned[n].element,
         path |-> RewritePath(targetPath, returned[n].path)] ]

TargetPaths == { <<"o", "/", "d">>, <<"o", "/", "d", "/">>, <<"o">>, <<>> }
ReturnedPaths ==
    { <<"a", "/", "b", "/", "c">>, <<"c">>, <<"a", "/">>, <<"/", "c">> }
Elements == {"e1", "e2"}
ReturnedPairs == [element : Elements, path : ReturnedPaths]

PathInit ==
    /\ argv = <<>>
    /\ config = NewConfig
    /\ mainPc = "transformOnly"
    /\ cur = 0
    /\ pipes = <<>>
    /\ failures = <<>>
    /\ console = [printed |-> FALSE, count |-> 0, lines |-> <<>>]
    /\ settleOrder = <<>>
    /\ netLog = <<>>
    /\ \E tp \in TargetPaths, r \in SeqsUpTo(ReturnedPairs, MaxPairs) :
          fragments = [targetPath |-> tp, returned |-> r, rewritten |-> <<>>]

TransformCall ==
    /\ mainPc = "transformOnly"
    /\ fragments' = [fragments EXCEPT
                        !.rewritten = FragmentTransform(fragments.targetPath,
                                                        fragments.returned)]
    /\ mainPc' = "transformed"
    /\ UNCHANGED <<argv, config, cur, pipes, failures, console, settleOrder, netLog>>

PathNext == TransformCall

PathSpec == PathInit /\ [][PathNext]_vars

----------------------------------------------------------------------------
(* Properties of the batch runner *)

JobCount == Len(SelectSeq(argv, IsJobToken))
FailedJobs == { k \in 1..Len(pipes) : pipes[k].pc = "failed" }
AllTerminal == \A k \in 1..Len(pipes) : Terminal(pipes[k])
Requested(k) == \E n \in 1..Len(netLog) : netLog[n] = k
MainEnded == mainPc \in {"returned", "threw"}

\* C1: in parallel mode main returns only after all N jobs were attempted
\* (N pipelines, each started and each terminal), and the failures it counted
\* and the count it printed equal the number M of pipelines that failed,
\* whatever the order in which the pipelines settled.
C1_ParallelCountsEveryFailure ==
    (config.parallel /\ MainEnded) =>
        /\ mainPc = "returned"
        /\ Len(pipes) = JobCount
        /\ \A k \in 1..Len(pipes) : Terminal(pipes[k]) /\ Requested(k)
        /\ Len(failures) = Cardinality(FailedJobs)
        /\ console.printed = (Cardinality(FailedJobs) > 0)
        /\ console.count = Cardinality(FailedJobs)

C1_Witness ==
    /\ config.parallel
    /\ mainPc = "returned"
    /\ Len(pipes) = 2
    /\ pipes[1].pc = "failed"
    /\ pipes[2].pc = "done"
    /\ settleOrder = <<2, 1>>
    /\ console.count = 1

EntriesOf(k) == { n \in 1..Len(failures) : failures[n] = pipes[k].outcome.value }

\* C2: in sequential mode main returns only after every job was run once, in
\* list order (every job was requested, no request of a job follows one of a
\* later job, and job k's pipeline is the k-th to settle), and failures holds
\* exactly one entry for each pipeline that failed and none for a pipeline
\* that succeeded.
C2_SequentialContinuesOnError ==
    (~config.parallel /\ MainEnded) =>
        /\ mainPc = "returned"
        /\ Len(pipes) = JobCount
        /\ \A k \in 1..Len(pipes) : Requested(k)
        /\ \A i, j \in 1..Len(netLog) : i < j => netLog[i] <= netLog[j]
        /\ settleOrder = [k \in 1..Len(pipes) |-> k]
        /\ Len(failures) = Cardinality(FailedJobs)
        /\ \A k \in 1..Len(pipes) :
              Cardinality(EntriesOf(k)) = (IF pipes[k].pc = "failed" THEN 1 ELSE 0)

C2_Witness ==
    /\ ~config.parallel
    /\ mainPc = "returned"
    /\ Len(pipes) = 2
    /\ pipes[1].pc = "failed"
    /\ pipes[2].pc = "done"
    /\ Len(failures) = 1
    /\ failures[1] = pipes[1].outcome.value

StageMessage(stage) ==
    CASE stage = "fetch" -> MsgFetch
      [] stage = "import" -> MsgImport
      [] stage = "shape" -> MsgInvalid
      [] stage = "html2docx" -> MsgConvert
      [] stage = "write" -> MsgWrite
      [] OTHER -> ""

IsImportFailureOf(v, p) ==
    /\ v.t = "ImportFailure"
    /\ v.document = p.doc
    /\ v.reason.message = StageMessage(p.failedAt)

\* C3: whenever a pipeline has failed, the value it rejected with is an
\* ImportFailure whose document is the pipeline's job and whose reason is the
\* message of the stage that failed; and the line main reports for an entry
\* of failures carries that entry's document and reason.
C3_FailureCarriesJobAndReason ==
    /\ \A k \in 1..Len(pipes) :
          pipes[k].pc = "failed" => IsImportFailureOf(pipes[k].outcome.value, pipes[k])
    /\ \A n \in 1..Len(console.lines) :
          /\ failures[n].t = "ImportFailure"
          /\ console.lines[n].document = failures[n].document
          /\ console.lines[n].reason = failures[n].reason

\* C4: in both modes main eventually returns from its report, it reports only
\* when every pipeline is terminal, and no rejection of a pipeline leaves
\* main.
C4_MainAlwaysReports ==
    /\ [](mainPc = "returned" => (Len(pipes) = JobCount /\ AllTerminal))
    /\ [](mainPc # "threw")
    /\ <>(mainPc = "returned")

C4_Witness ==
    /\ mainPc = "returned"
    /\ Len(pipes) = 2
    /\ pipes[1].pc = "failed"
    /\ pipes[2].pc = "failed"
    /\ console.count = 2

\* the mkdir of a pipeline names the directory that holds path: path is dir,
\* a '/' and a last segment without '/'; a path without '/' is held by "."
HoldsPath(dir, path) ==
    IF \A i \in 1..Len(path) : path[i] # "/"
    THEN dir = <<".">>
    ELSE \E i \in 2..Len(path) - 1 :
            /\ path[i] = "/"
            /\ \A j \in i + 1..Len(path) : path[j] # "/"
            /\ dir = SubSeq(path, 1, i - 1)

OpsNamed(p, name) == { n \in 1..Len(p.ops) : p.ops[n].op = name }

\* C7: a pipeline that is Done issued exactly one mkdir and one writeFile, the
\* mkdir first, recursive and of the directory that holds result.path, the
\* writeFile of result.docx to result.path, and resolved with the result of
\* html2docx; and a terminal pipeline whose fetch gave text, whose
\* transformer exposes transformDOM, whose html2docx resolved and whose
\* filesystem calls did not fail is Done.
C7_HappyPathWritesOnce ==
    \A k \in 1..Len(pipes) :
        LET p == pipes[k]
        IN  /\ p.pc = "done" =>
                /\ Cardinality(OpsNamed(p, "mkdir")) = 1
                /\ Cardinality(OpsNamed(p, "writeFile")) = 1
                /\ \E m \in OpsNamed(p, "mkdir"), w \in OpsNamed(p, "writeFile") :
                      /\ m < w
                      /\ p.ops[m].data = "recursive"
                      /\ HoldsPath(p.ops[m].target, p.result.path)
                      /\ p.ops[w].target = p.result.path
                      /\ p.ops[w].data = p.result.docx
                /\ p.result \in Results
                /\ p.outcome = Fulfilled(p.result)
            /\ ( /\ Terminal(p)
                 /\ p.fetched.status = "fulfilled"
                 /\ ~Falsy(p.fetched.value)
                 /\ HasTransformDOM(p.transformer)
                 /\ p.result \in Results
                 /\ p.failedAt # "write" ) => p.pc = "done"

C7_Witness ==
    \E k \in 1..Len(pipes) :
        /\ pipes[k].pc = "done"
        /\ pipes[k].transformer = "dom"
        /\ pipes[k].result.path = <<"o", "/", "a">>
        /\ pipes[k].ops[Len(pipes[k].ops)] = Op("writeFile", <<"o", "/", "a">>, "bytes")
        /\ pipes[k].ops[Len(pipes[k].ops) - 1] = Op("mkdir", <<"o">>, "recursive")

NothingConverted(p) ==
    /\ OpsNamed(p, "html2docx") = {}
    /\ OpsNamed(p, "mkdir") = {}
    /\ OpsNamed(p, "writeFile") = {}

\* C8 as claimed: a loaded transformer that exposes neither capability, or
\* both, leaves its pipeline Failed with html2docx never invoked and nothing
\* written.
C8_NeitherOrBothFails ==
    \A k \in 1..Len(pipes) :
        pipes[k].transformer \in {"neither", "both"} =>
            pipes[k].pc = "failed" /\ NothingConverted(pipes[k])

\* C8 as amended: a loaded transformer that exposes neither capability (or a
\* module without a default export) leaves its pipeline Failed with html2docx
\* never invoked and nothing written; one that exposes both is taken as the
\* transformDOM variant and html2docx is invoked with it, as for one that
\* exposes transformDOM alone; one that exposes transform alone is taken as
\* the fragment variant.
C8_NeitherFailsBothIsDOM ==
    \A k \in 1..Len(pipes) :
        LET p == pipes[k]
        IN  /\ p.transformer \in {"neither", "nodefault"} =>
                  (p.pc = "failed" /\ NothingConverted(p))
            /\ p.transformer \in {"both", "dom"} =>
                  /\ p.contract = "DOM"
                  /\ \E n \in OpsNamed(p, "html2docx") : p.ops[n].data = "DOM"
            /\ p.transformer = "fragment" =>
                  /\ p.contract = "Fragment"
                  /\ \E n \in OpsNamed(p, "html2docx") : p.ops[n].data = "Fragment"

C8_Witness ==
    \E j, k \in 1..Len(pipes) :
        /\ pipes[j].transformer = "neither"
        /\ pipes[j].pc = "failed"
        /\ pipes[k].transformer = "both"
        /\ pipes[k].pc = "done"

----------------------------------------------------------------------------
(* Properties of fetchAsTextWithRetry *)

FetchEnded(p) == p.pc \in {"fetchReturned", "fetchThrew"}
FailedAttempt(r) == r.kind \in {"non200", "neterr"}

\* the answers so far are those of a server that answers the first
\* maxRetries - 1 requests with a status other than 200 and the next with 200
LastAttemptSucceeds(p) ==
    /\ p.max >= 1
    /\ Len(p.served) <= p.max
    /\ \A n \in 1..Len(p.served) :
          IF n < p.max THEN p.served[n].kind = "non200" ELSE p.served[n].kind = "ok"

\* C5: against a server that answers the first maxRetries - 1 requests with a
\* status other than 200 and the next with 200, a call that has ended has
\* returned, after exactly maxRetries requests, the body of the last response.
C5_SucceedsOnLastAttempt ==
    \A k \in 1..Len(pipes) :
        LET p == pipes[k]
        IN  (mainPc = "fetchOnly" /\ FetchEnded(p) /\ LastAttemptSucceeds(p)) =>
                /\ p.pc = "fetchReturned"
                /\ Gets(p) = p.max
                /\ Len(p.served) = p.max
                /\ p.fetched = Fulfilled(Str(p.served[p.max].body))

\* C6: a call that has ended has returned null exactly when it made all
\* maxRetries requests and every one of them failed (another status than 200,
\* or a rejected fetch); it does not throw then.
C6_NullIffAllAttemptsFailed ==
    \A k \in 1..Len(pipes) :
        LET p == pipes[k]
        IN  ( /\ mainPc = "fetchOnly"
              /\ FetchEnded(p)
              /\ \A n \in 1..Len(p.served) : p.served[n].kind # "badbody" ) =>
                ( (p.pc = "fetchReturned" /\ p.fetched = Fulfilled(Null))
                  <=> ( /\ Gets(p) = p.max
                        /\ Len(p.served) = p.max
                        /\ \A n \in 1..Len(p.served) : FailedAttempt(p.served[n]) ) )

----------------------------------------------------------------------------
(* Properties of parseArgs *)

\* the fields of job are the first three '|'-separated parts of token: the
\* parts that exist contain no '|', joined by '|' they are the token up to
\* its end or up to the '|' that ends the third, and a part is undefined
\* only when the token has no such part
NoBar(v) == \A i \in 1..Len(v.s) : v.s[i] # "|"
Bar == <<"|">>

IsJobOf(job, token) ==
    LET a == job.url
        b == job.targetPath
        c == job.transformerPath
    IN  /\ a.t = "string" /\ NoBar(a)
        /\ b.t \in {"string", "undefined"} /\ NoBar(b)
        /\ c.t \in {"string", "undefined"} /\ NoBar(c)
        /\ IF b.t = "undefined" THEN c.t = "undefined" /\ token = a.s
           ELSE IF c.t = "undefined" THEN token = a.s \o Bar \o b.s
           ELSE \/ token = a.s \o Bar \o b.s \o Bar \o c.s
                \/ StartsWith(token, a.s \o Bar \o b.s \o Bar \o c.s \o Bar)

NotAnOption(arg) == ~(Len(arg) >= 2 /\ arg[1] = "-" /\ arg[2] = "-")

\* C9: config.documents holds one job per token that does not start with
\* "--", in the order of those tokens, each with the first, second and third
\* '|'-separated parts of its token as url, targetPath and transformerPath.
C9_OneJobPerTokenInOrder ==
    mainPc = "parsed" =>
        LET tokens == SelectSeq(argv, NotAnOption)
        IN  /\ Len(config.documents) = Len(tokens)
            /\ \A n \in 1..Len(tokens) : IsJobOf(config.documents[n], tokens[n])

C9_Witness ==
    /\ mainPc = "parsed"
    /\ argv = <<JobA, OptParallelFalse, JobB>>
    /\ config.documents =
          << [url |-> Str(<<"u">>), targetPath |-> Str(<<"o", "/", "a">>),
              transformerPath |-> Str(<<"t">>)],
             [url |-> Str(<<"v">>), targetPath |-> Str(<<"p", "/">>),
              transformerPath |-> Str(<<"s">>)] >>

\* the value of the last token among args[1..n] that is exactly --parallel,
\* --parallel=true or --parallel=false; true when there is none
RECURSIVE LastParallel(_, _)
LastParallel(args, n) ==
    IF n = 0 THEN TRUE
    ELSE IF args[n] \in {OptParallel, OptParallelTrue} THEN TRUE
    ELSE IF args[n] = OptParallelFalse THEN FALSE
    ELSE LastParallel(args, n - 1)

\* C10: config.parallel is the value of the last valid parallel option
\* (--parallel, --parallel=true, --parallel=false) and true without one;
\* every other token leaves it as it was.
C10_LastValidParallelWins ==
    mainPc = "parsed" => config.parallel = LastParallel(argv, Len(argv))

NonEmptyString(v) == v.t = "string" /\ v.s # <<>>

\* C11: every job of the configuration parseArgs returned has url, targetPath
\* and transformerPath present, each a non-empty string.
C11_JobFieldsNonEmpty ==
    mainPc = "parsed" =>
        \A n \in 1..Len(config.documents) :
            /\ NonEmptyString(config.documents[n].url)
            /\ NonEmptyString(config.documents[n].targetPath)
            /\ NonEmptyString(config.documents[n].transformerPath)

----------------------------------------------------------------------------
(* Properties of the fragment contract's path rewriting *)

\* seg is the final '/'-separated segment of p: what follows p's last '/', or
\* all of p when it holds none
FinalSegmentOf(seg, p) ==
    \E i \in 0..Len(p) :
        /\ seg = SubSeq(p, i + 1, Len(p))
        /\ i = 0 \/ p[i] = "/"
        /\ \A n \in 1..Len(seg) : seg[n] # "/"

\* r is tp, then one '/' exactly when tp does not end in one, then seg
JoinedUnder(r, tp, seg) ==
    LET closed == tp # <<>> /\ tp[Len(tp)] = "/"
    IN  \/ closed /\ r = tp \o seg
        \/ ~closed /\ r = tp \o <<"/">> \o seg

OutDir == <<"o", "/", "d">>
OutDirSlash == <<"o", "/", "d", "/">>
DeepPath == <<"a", "/", "b", "/", "c">>
Rewritten == <<"o", "/", "d", "/", "c">>

\* C12: the fragment contract returns one pair per pair of the transformer, in
\* the same order and with the same element, and each path is targetPath, one
\* '/' exactly when targetPath does not end in '/', and the final segment of the
\* transformer's path; a/b/c becomes o/d/c under both o/d and o/d/.
C12_RewriteKeepsFinalSegment ==
    mainPc = "transformed" =>
        /\ Len(fragments.rewritten) = Len(fragments.returned)
        /\ \A n \in 1..Len(fragments.returned) :
              LET from == fragments.returned[n]
                  to == fragments.rewritten[n]
              IN  /\ to.element = from.element
                  /\ \E seg \in { SubSeq(from.path, i + 1, Len(from.path)) :
                                    i \in 0..Len(from.path) } :
                        /\ FinalSegmentOf(seg, from.path)
                        /\ JoinedUnder(to.path, fragments.targetPath, seg)
                  /\ (fragments.targetPath \in {OutDir, OutDirSlash}
                        /\ from.path = DeepPath) => to.path = Rewritten

C12_Witness ==
    /\ mainPc = "transformed"
    /\ fragments.targetPath = OutDirSlash
    /\ fragments.returned = <<[element |-> "e2", path |-> DeepPath],
                              [element |-> "e1", path |-> <<"c">>]>>
    /\ fragments.rewritten = <<[element |-> "e2", path |-> Rewritten],
                               [element |-> "e1", path |-> Rewritten]>>

----------------------------------------------------------------------------
(* Properties of one job's pipeline *)

StageRank(name) ==
    CASE name = "fetch" -> 1
      [] name = "import" -> 2
      [] name = "html2docx" -> 3
      [] name = "mkdir" -> 4
      [] name = "writeFile" -> 5

Issued(p, name) == \E n \in 1..Len(p.ops) : p.ops[n].op = name

\* the operations in which a pipeline that failed at the given exit can end
LastOpsOf(stage) ==
    CASE stage = "fetch" -> {"fetch"}
      [] stage \in {"import", "shape"} -> {"import"}
      [] stage = "html2docx" -> {"html2docx"}
      [] stage = "write" -> {"mkdir", "writeFile"}

StagesInOrder(p) ==
    /\ \A i, j \in 1..Len(p.ops) :
          i < j => /\ StageRank(p.ops[i].op) <= StageRank(p.ops[j].op)
                   /\ p.ops[j].op # "fetch" => p.ops[i].op # p.ops[j].op
    /\ Issued(p, "import") =>
          /\ p.ops[Len(p.ops)].op # "fetch"
          /\ p.fetched.status = "fulfilled" /\ NonEmptyString(p.fetched.value)
    /\ Issued(p, "html2docx") =>
          /\ Issued(p, "import")
          /\ p.contract \in {"DOM", "Fragment"}
    /\ Issued(p, "mkdir") => Issued(p, "html2docx") /\ p.result \in Results
    /\ Issued(p, "writeFile") => Issued(p, "mkdir")
    /\ p.pc = "done" => Issued(p, "writeFile")
    /\ p.pc = "failed" =>
          /\ p.ops # <<>>
          /\ p.ops[Len(p.ops)].op \in LastOpsOf(p.failedAt)

\* C13: a pipeline issues fetch requests, then at most one import, one
\* html2docx, one mkdir and one writeFile, in this order, each only after the
\* stage before it succeeded; a failed pipeline ends with the operation of the
\* stage that failed and never changes again.
C13_StagesInOrderOnce ==
    /\ [](\A k \in 1..Len(pipes) : StagesInOrder(pipes[k]))
    /\ [][\A k \in 1..Len(pipes) :
            pipes[k].pc = "failed" => k <= Len(pipes') /\ pipes'[k] = pipes[k]]_vars

C13_Witness ==
    \E k \in 1..Len(pipes) :
        /\ pipes[k].pc = "failed"
        /\ pipes[k].failedAt = "html2docx"
        /\ Len(pipes[k].ops) = 3
        /\ mainPc = "returned"

----------------------------------------------------------------------------
(* Properties of the failures list *)

\* the place of pipeline k in the order of settlement, 0 while it is in flight
SettledAt(k) ==
    IF \E n \in 1..Len(settleOrder) : settleOrder[n] = k
    THEN CHOOSE n \in 1..Len(settleOrder) : settleOrder[n] = k
    ELSE 0

ParallelReturned == config.parallel /\ mainPc = "returned"

\* C14: in parallel mode the failures list is in the order in which the
\* failing pipelines settled: an earlier entry belongs to a pipeline that
\* settled earlier.
C14_FailuresInSettlementOrder ==
    ParallelReturned =>
        \A a, b \in 1..Len(failures) :
            a < b => SettledAt(failures[a].id) < SettledAt(failures[b].id)

\* C14, amended: in parallel mode the failures list is in the order of the job
\* list, whatever the order of settlement: an earlier entry belongs to a job
\* with a smaller index.
C14_FailuresInJobOrder ==
    ParallelReturned =>
        /\ \A a, b \in 1..Len(failures) : a < b => failures[a].id < failures[b].id
        /\ \A k \in FailedJobs : \E a \in 1..Len(failures) : failures[a].id = k

C14_Witness ==
    /\ ParallelReturned
    /\ settleOrder = <<2, 1>>
    /\ FailedJobs = {1, 2}
    /\ Len(failures) = 2
    /\ failures[1].id = 1
    /\ failures[2].id = 2

InFlight(p) == p.pc # "pending" /\ ~Terminal(p)

\* C15: in sequential mode at most one pipeline has started and is not yet
\* terminal, and a pipeline that has started (it left "pending" or issued an
\* operation) finds every pipeline before it in the job list terminal.
C15_SequentialNeverOverlaps ==
    (mainPc # "start" /\ ~config.parallel) =>
        /\ Cardinality({ k \in 1..Len(pipes) : InFlight(pipes[k]) }) <= 1
        /\ \A k \in 1..Len(pipes) :
              (pipes[k].pc # "pending" \/ pipes[k].ops # <<>>) =>
                  \A j \in 1..(k - 1) : Terminal(pipes[j])

C15_Witness ==
    /\ ~config.parallel
    /\ Len(pipes) = 2
    /\ pipes[1].pc = "done"
    /\ InFlight(pipes[2])
    /\ pipes[2].pc = "writeFile"

\* the failures list grows at its end only
AppendedOnly(old, new) ==
    /\ Len(old) <= Len(new)
    /\ SubSeq(new, 1, Len(old)) = old

\* C16: in both modes every entry of the failures list is the rejection of a
\* pipeline that has settled as failed, no two entries belong to the same
\* pipeline, and a step of the program leaves the entries it finds in place.
C16_FailuresOnlyOfSettledJobs ==
    /\ [](/\ \A a \in 1..Len(failures) :
                \E k \in 1..Len(pipes) :
                    /\ pipes[k].pc = "failed"
                    /\ pipes[k].outcome = Rejected(failures[a])
          /\ \A a, b \in 1..Len(failures) : a # b => failures[a] # failures[b]
          /\ Len(failures) <= Cardinality(FailedJobs))
    /\ [][AppendedOnly(failures, failures')]_vars

C16_Witness ==
    /\ ~config.parallel
    /\ mainPc = "awaitJob"
    /\ Len(pipes) = 2
    /\ pipes[1].pc = "failed"
    /\ pipes[2].pc = "failed"
    /\ failures = <<pipes[1].outcome.value>>

----------------------------------------------------------------------------
(* Properties of the parallel launch *)

FirstIds(n) == [k \in 1..n |-> k]

\* every pipeline awaits its first request, which nothing has answered yet
AllAwaitFirstFetch(ps) ==
    \A k \in 1..Len(ps) :
        /\ ps[k].pc = "fetch"
        /\ Gets(ps[k]) = 1
        /\ ps[k].served = <<>>

\* C17: in parallel mode main's first step launches the pipelines of all N
\* jobs: after it every pipeline awaits its first request and no continuation
\* has run, and from then on the first N requests of the network log are those
\* of jobs 1..N in the order of the job list.
C17_ParallelLaunchesAll ==
    /\ [][(mainPc = "start" /\ config'.parallel) =>
            /\ Len(pipes') = JobCount
            /\ AllAwaitFirstFetch(pipes')
            /\ netLog' = FirstIds(JobCount)]_vars
    /\ []((mainPc # "start" /\ config.parallel) =>
            /\ Len(pipes) = JobCount
            /\ \A k \in 1..Len(pipes) : pipes[k].pc # "pending"
            /\ Len(netLog) >= JobCount
            /\ SubSeq(netLog, 1, JobCount) = FirstIds(JobCount))

C17_Witness ==
    /\ config.parallel
    /\ mainPc = "allSettled"
    /\ Len(pipes) = MaxJobs
    /\ AllAwaitFirstFetch(pipes)
    /\ netLog = FirstIds(MaxJobs)

----------------------------------------------------------------------------
(* Properties of the end of fetchAsTextWithRetry *)

ReturnedText(p) == p.pc = "fetchReturned" /\ p.fetched.value.t = "string"

\* C18: a call that returned a text made as many requests as it got answers,
\* at most maxRetries; the last answer is the first with status 200 and a
\* readable body, and its body is the text returned. The step that reads the
\* body of such an answer ends the call and issues no request.
C18_StopsAtFirstSuccess ==
    /\ [](\A k \in 1..Len(pipes) :
            LET p == pipes[k]
                n == Len(p.served)
            IN  /\ mainPc = "fetchOnly" => Gets(p) <= p.max
                /\ (mainPc = "fetchOnly" /\ ReturnedText(p)) =>
                      /\ n >= 1
                      /\ Gets(p) = n
                      /\ p.served[n].kind = "ok"
                      /\ \A m \in 1..(n - 1) : p.served[m].kind # "ok"
                      /\ p.fetched = Fulfilled(Str(p.served[n].body)))
    /\ [][\A k \in 1..Len(pipes) :
            (mainPc = "fetchOnly" /\ pipes[k].pc = "text" /\ pipes[k].resp.kind = "ok") =>
                /\ ReturnedText(pipes'[k])
                /\ pipes'[k].ops = pipes[k].ops]_vars

C18_Witness ==
    /\ mainPc = "fetchOnly"
    /\ pipes[1].max = DefaultMaxRetries
    /\ ReturnedText(pipes[1])
    /\ pipes[1].fetched = Fulfilled(Str(<<"h">>))
    /\ Gets(pipes[1]) = 1

FailedAttempts(p) ==
    Cardinality({ n \in 1..Len(p.served) : FailedAttempt(p.served[n]) })

\* C19: a call that has ended, none of whose responses had an unreadable
\* body, has waited once for each failed attempt (another status than 200, or
\* a rejected fetch), the last included; every wait completed and lasted
\* delayBetweenRetries.
C19_WaitsOncePerFailedAttempt ==
    \A k \in 1..Len(pipes) :
        LET p == pipes[k]
        IN  ( /\ mainPc = "fetchOnly"
              /\ FetchEnded(p)
              /\ \A n \in 1..Len(p.served) : p.served[n].kind # "badbody" ) =>
                /\ Len(p.waits) = FailedAttempts(p)
                /\ \A n \in 1..Len(p.waits) :
                      /\ p.waits[n].status = "fulfilled"
                      /\ p.waits[n].ms = p.ms

----------------------------------------------------------------------------
(* Properties of the empty response body *)

EmptyText == Fulfilled(Str(<<>>))

\* the rejection with which importDocument leaves when the fetcher returns null
ExhaustedExit(p, k) == AfterFetch([p EXCEPT !.fetched = Fulfilled(Null)], k).outcome

\* C20: a pipeline whose fetch returned the empty string, once it has gone
\* on, is failed at the fetch exit with the rejection of an exhausted fetch:
\* it has issued nothing but fetch requests, has loaded no transformer, built
\* no contract and has no converted document.
C20_EmptyBodyIsFetchFailure ==
    \A k \in 1..Len(pipes) :
        LET p == pipes[k]
        IN  (mainPc # "fetchOnly" /\ p.fetched = EmptyText /\ p.pc # "fetchReturned") =>
                /\ p.pc = "failed"
                /\ p.failedAt = "fetch"
                /\ p.outcome = ExhaustedExit(p, k)
                /\ \A n \in 1..Len(p.ops) : p.ops[n].op = "fetch"
                /\ p.transformer = "unloaded"
                /\ p.contract = "none"
                /\ p.result = NoResult

C20_Witness ==
    \E k \in 1..Len(pipes) :
        /\ pipes[k].fetched = EmptyText
        /\ pipes[k].served = <<[kind |-> "ok", status |-> StatusOK, body |-> <<>>]>>
        /\ pipes[k].pc = "failed"
        /\ Gets(pipes[k]) = 1
        /\ mainPc = "returned"

====
